---- MODULE Spec2Model ----
(***************************************************************************)
(* Model of the bottel realtime server: the room registry and walk engine  *)
(* (packages/server/src/game/RoomManager.ts) driven by the websocket       *)
(* handler (ws/handler.ts, kept as src/unnamed/part_005 lines 476-750).    *)
(*                                                                         *)
(* Every handler is an async function run by Node's event loop.  A handler *)
(* is resumed by an I/O event (a websocket message or close, a database    *)
(* reply, a timer) and then runs, through every await of an already        *)
(* settled promise, until it awaits the database again or returns: the     *)
(* continuations of settled promises are microtasks, which run before the  *)
(* next I/O event is dispatched.  One action of this model is one such     *)
(* run; the runs of different handler invocations interleave freely.       *)
(***************************************************************************)
EXTENDS Integers, Sequences, FiniteSets, TLC

\* ------------------------------------------------------------------ bounds
NSockets == 2
MaxTasks == 2
MaxCmds == 5

\* ------------------------------------------------------------- value sets
Sockets == 1..NSockets
Pids == {"p1", "p2"}
None == "none"
DBRooms == {"L", "A"}
TaskIds == 1..MaxTasks

\* what a client may put in the roomId field of a join: a slug, an id, or
\* a string that is neither
JoinArgs == {"lobby", "L", "A", "zz", "U"}
\* what a client may put in the token field of an auth: a token signed for
\* a participant id, or one that fails verification
Tokens == Pids \cup {"bad"}

VARIABLES
  wsOpen,       \* sockets whose readyState is OPEN (1)
  connections,  \* handler.connections: socket -> userId of its AuthenticatedConnection
  spectators,   \* handler.spectators: socket -> roomId of its SpectatorConnection
  rooms,        \* RoomManager.rooms: roomId -> RoomInstance
  agentRooms,   \* RoomManager.agentRooms: agentId -> roomId
  dbTiles,      \* rooms table: width, height and tiles of every persisted room
  dbMessages,   \* messages table: the rows in the order they were inserted
  timers,       \* walk timers whose agent object is no longer in a registered room
  tasks,        \* handler invocations waiting for the database
  ncmd,         \* budget left for client events (messages and closes)
  out,          \* frames written to sockets by the last step, in order
  last,         \* the handler invocation that returned in the last step
  fp,           \* a call of findPath on its own: its arguments and what it returned
  ar            \* a call of getActiveRooms: where it stands and what it returned

vars == <<wsOpen, connections, spectators, rooms, agentRooms, dbTiles, dbMessages,
          timers,
          tasks, ncmd, out, last, fp, ar>>

\* ------------------------------------------------------------------- grid
\* A rooms row: width w, height h and tiles t, with t[y][x] = 0 for walkable
\* and 1 for blocked; null is TRUE when the tiles column is NULL.
Cols(g) == 0..(g.w - 1)
Rows(g) == 0..(g.h - 1)

generateDefaultTiles(w, h) ==
  [y \in 0..(h - 1) |->
     [x \in 0..(w - 1) |->
        IF x = 0 \/ y = 0 \/ x = w - 1 \/ y = h - 1 THEN 1 ELSE 0]]

\* room.tiles of a loaded instance: roomData.tiles || generateDefaultTiles
RoomTiles(g) == IF g.null THEN generateDefaultTiles(g.w, g.h) ELSE g.t

\* tiles[y]?.[x], with -1 standing for undefined
TileAt(g, x, y) ==
  LET t == RoomTiles(g)
  IN IF y \in DOMAIN t /\ x \in DOMAIN t[y] THEN t[y][x] ELSE -1

Pt(x, y) == [x |-> x, y |-> y]

\* the eight directions, in the order of the source
directions ==
  << Pt(0, -1), Pt(1, 0), Pt(0, 1), Pt(-1, 0),
     Pt(1, -1), Pt(1, 1), Pt(-1, 1), Pt(-1, -1) >>

Abs(n) == IF n < 0 THEN -n ELSE n

\* Costs are kept in tenths: 10 for a cardinal step, 14 for a diagonal one.
heuristic(x, y, endX, endY) == 10 * (Abs(x - endX) + Abs(y - endY))

\* Array.prototype.sort with (a, b) => a.f - b.f: a stable sort by f
RECURSIVE InsertByF(_, _)
InsertByF(sorted, n) ==
  IF sorted = <<>> THEN <<n>>
  ELSE IF Head(sorted).f <= n.f THEN <<Head(sorted)>> \o InsertByF(Tail(sorted), n)
  ELSE <<n>> \o sorted

RECURSIVE SortByF(_)
SortByF(open) ==
  IF open = <<>> THEN <<>>
  ELSE InsertByF(SortByF(SubSeq(open, 1, Len(open) - 1)), open[Len(open)])

IndexOf(open, x, y) ==
  LET hits == {i \in 1..Len(open) : open[i].x = x /\ open[i].y = y}
  IN IF hits = {} THEN 0 ELSE CHOOSE i \in hits : \A j \in hits : i <= j

\* the loop body without its check of the two tiles beside a diagonal step
RelaxCutCorners(g, cur, d, endX, endY, closed, open) ==
  LET nx == cur.x + d.x
      ny == cur.y + d.y
      diag == d.x # 0 /\ d.y # 0
      ng == cur.g + (IF diag THEN 14 ELSE 10)
      nf == ng + heuristic(nx, ny, endX, endY)
      k == IndexOf(open, nx, ny)
  IN IF nx < 0 \/ ny < 0 \/ nx >= g.w \/ ny >= g.h THEN open
     ELSE IF TileAt(g, nx, ny) # 0 THEN open
     ELSE IF Pt(nx, ny) \in closed THEN open
     ELSE IF k # 0
       THEN IF ng < open[k].g
              THEN [open EXCEPT ![k] = [@ EXCEPT !.g = ng, !.f = nf,
                                                 !.parent = <<Pt(cur.x, cur.y)>> \o cur.parent]]
              ELSE open
       ELSE Append(open, [x |-> nx, y |-> ny, g |-> ng, f |-> nf,
                          parent |-> <<Pt(cur.x, cur.y)>> \o cur.parent])

\* one pass of the "for (const dir of directions)" loop body
Relax(g, cur, d, endX, endY, closed, open) ==
  LET nx == cur.x + d.x
      ny == cur.y + d.y
      diag == d.x # 0 /\ d.y # 0
      ng == cur.g + (IF diag THEN 14 ELSE 10)
      nf == ng + heuristic(nx, ny, endX, endY)
      k == IndexOf(open, nx, ny)
  IN IF nx < 0 \/ ny < 0 \/ nx >= g.w \/ ny >= g.h THEN open
     ELSE IF TileAt(g, nx, ny) # 0 THEN open
     ELSE IF Pt(nx, ny) \in closed THEN open
     ELSE IF diag /\ (TileAt(g, nx, cur.y) # 0 \/ TileAt(g, cur.x, ny) # 0) THEN open
     ELSE IF k # 0
       THEN IF ng < open[k].g
              THEN [open EXCEPT ![k] = [@ EXCEPT !.g = ng, !.f = nf,
                                                 !.parent = <<Pt(cur.x, cur.y)>> \o cur.parent]]
              ELSE open
       ELSE Append(open, [x |-> nx, y |-> ny, g |-> ng, f |-> nf,
                          parent |-> <<Pt(cur.x, cur.y)>> \o cur.parent])

RECURSIVE RelaxAll(_, _, _, _, _, _, _)
RelaxAll(g, cur, i, endX, endY, closed, open) ==
  IF i > Len(directions) THEN open
  ELSE RelaxAll(g, cur, i + 1, endX, endY, closed,
                Relax(g, cur, directions[i], endX, endY, closed, open))

Reverse(s) == [i \in 1..Len(s) |-> s[Len(s) + 1 - i]]

\* the while loop: a node carries the chain of its ancestors (nearest first,
\* the start node last), which is what following .parent yields
RECURSIVE AStar(_, _, _, _, _)
AStar(g, endX, endY, closed, open) ==
  IF open = <<>> THEN <<>>
  ELSE LET sorted == SortByF(open)
           cur == Head(sorted)
       IN IF cur.x = endX /\ cur.y = endY
            THEN \* every node that has a parent, start excluded, in walking order
                 Reverse(<<Pt(cur.x, cur.y)>> \o SubSeq(cur.parent, 1, Len(cur.parent) - 1))
            ELSE AStar(g, endX, endY, closed \cup {Pt(cur.x, cur.y)},
                       RelaxAll(g, cur, 1, endX, endY,
                                closed \cup {Pt(cur.x, cur.y)}, Tail(sorted)))

\* findPath with a reconstruction loop that does not stop before the start node
findPathWithStart(g, startX, startY, endX, endY) ==
  IF startX = endX /\ startY = endY THEN <<>>
  ELSE LET p == AStar(g, endX, endY, {},
                      << [x |-> startX, y |-> startY, g |-> 0,
                          f |-> heuristic(startX, startY, endX, endY), parent |-> <<>>] >>)
       IN IF p = <<>> THEN <<>> ELSE <<Pt(startX, startY)>> \o p

findPath(g, startX, startY, endX, endY) ==
  IF startX = endX /\ startY = endY THEN <<>>
  ELSE AStar(g, endX, endY, {},
             << [x |-> startX, y |-> startY, g |-> 0,
                 f |-> heuristic(startX, startY, endX, endY), parent |-> <<>>] >>)

\* findSpawnPoint reduced to its last line: (1,1) whatever the tiles are
findSpawnPointFixed(g) == Pt(1, 1)

findSpawnPoint(g) ==
  IF TileAt(g, 1, 1) = 0 THEN Pt(1, 1)
  ELSE LET free == {c \in [x : Cols(g), y : Rows(g)] : TileAt(g, c.x, c.y) = 0}
       IN IF free = {} THEN Pt(1, 1)
          ELSE CHOOSE c \in free :
                 \A e \in free : c.y < e.y \/ (c.y = e.y /\ c.x <= e.x)

\* ------------------------------------------------------------ shared constants
MAX_MESSAGE_LENGTH == 500
MESSAGE_HISTORY_LIMIT == 50

\* ------------------------------------------------------------ heap objects
\* ConnectedAgent; ws = 0 marks an absent map entry
NoAgent == [ws |-> 0, x |-> -1, y |-> -1, isWalking |-> FALSE, walkPath |-> <<>>,
            walkInterval |-> FALSE]

\* RoomInstance (room.id, agents, spectators, messageHistory); its room.width,
\* room.height and room.tiles are those of the rooms row, which the server
\* never writes.  held names the addMessage calls that hold a reference to
\* this object across their await; order is the place of the room's key in
\* the iteration order of this.rooms, the order in which the keys were set.
NoRoom == [id |-> None, agents |-> [p \in Pids |-> NoAgent], spectators |-> {},
           messageHistory |-> <<>>, held |-> {}, order |-> 0]

\* a handler invocation waiting for a database reply: op names the handler,
\* pc the query; ws, pid (conn.userId read at dispatch), arg and rid (the
\* roomId being loaded) are its locals; from records the room whose agents map
\* held the participant when the message arrived, at the createdAt of the row
\* an insert has returned
Idle == [op |-> "idle", pc |-> "", ws |-> 0, pid |-> None, arg |-> None, rid |-> None,
         from |-> None, at |-> 0]

\* what is kept of a handler invocation that has returned: left is the value
\* leaveCurrentRoom returned to it (for a spectator join, the roomId of the
\* spectator entry it found); why, x and y are moveAgent's verdict and
\* the target of an accepted move, arg and at the text and the createdAt of a
\* chat
NoLast == [op |-> "none", ws |-> 0, pid |-> None, rid |-> None, left |-> None,
           from |-> None, ok |-> FALSE, why |-> "", x |-> -1, y |-> -1, arg |-> None,
           at |-> 0]

\* a frame written to socket "to"
Ev(to, type, room, pid) ==
  [to |-> to, type |-> type, room |-> room, pid |-> pid, agents |-> {}, x |-> -1, y |-> -1,
   code |-> "", content |-> <<>>, at |-> 0]

SlugToId(slug) == IF slug = "lobby" THEN "L" ELSE None

PidSeq == <<"p1", "p2">>

RECURSIVE SeqOfSockets(_)
SeqOfSockets(S) ==
  IF S = {} THEN <<>>
  ELSE LET s == CHOOSE x \in S : \A y \in S : x <= y
       IN <<s>> \o SeqOfSockets(S \ {s})

\* ----------------------------------------------------- RoomManager methods
\* The registry is passed around as a record
\* m = [rooms, agentRooms, timers].

Loaded(m, roomId) == roomId \in DBRooms /\ m.rooms[roomId].id # None

Agents(inst) == {p \in Pids : inst.agents[p].ws # 0}

\* the walk timers of the agents of an instance that leaves the registry with
\* them: nothing clears them
Orphaned(inst) ==
  {[room |-> inst.id, pid |-> p, walkPath |-> inst.agents[p].walkPath] :
     p \in {q \in Pids : inst.agents[q].walkInterval}}

\* the messages query of loadRoom: the rows of the room, newest first, at most
\* limit of them; rows are inserted with increasing createdAt
Min(a, b) == IF a < b THEN a ELSE b

InRoom(roomId, row) == row.room = roomId

findManyMessages(roomId, limit) ==
  LET rows == Reverse(SelectSeq(dbMessages, LAMBDA row : InRoom(roomId, row)))
  IN SubSeq(rows, 1, Min(limit, Len(rows)))

\* a ChatMessage of messageHistory
ChatMessage(agentId, content, createdAt) ==
  [pid |-> agentId, content |-> content, createdAt |-> createdAt]

RowMessage(row) == ChatMessage(row.pid, row.content, row.createdAt)

\* loadRoom's messageHistory: recentMessages.reverse(), one ChatMessage a row
messageHistoryOf(roomId) ==
  LET recent == Reverse(findManyMessages(roomId, MESSAGE_HISTORY_LIMIT))
  IN [i \in 1..Len(recent) |-> RowMessage(recent[i])]

\* loadRoom after its database reads: build the instance and
\* this.rooms.set(roomId, instance), whatever is registered by then
loadRoomFinish(m, roomId) ==
  [m EXCEPT !.rooms[roomId] = [NoRoom EXCEPT !.id = roomId,
                                             !.messageHistory = messageHistoryOf(roomId),
                                             !.order = IF Loaded(m, roomId)
                                                         THEN m.rooms[roomId].order
                                                         ELSE Cardinality({r \in DBRooms :
                                                                Loaded(m, r)}) + 1],
            !.timers = @ \cup Orphaned(m.rooms[roomId])]

\* this.rooms.delete(roomId): the keys set after it move up one place
deleteRoom(m, roomId) ==
  [m EXCEPT !.rooms = [r \in DBRooms |->
                         IF r = roomId THEN NoRoom
                         ELSE IF m.rooms[r].order > m.rooms[roomId].order
                           THEN [m.rooms[r] EXCEPT !.order = @ - 1]
                           ELSE m.rooms[r]]]

\* leaveCurrentRoom, which has no await inside: its return value is
\* m.agentRooms[agentId] (None for null)
leaveCurrentRoom(m, agentId) ==
  LET roomId == m.agentRooms[agentId]
  IN IF roomId = None THEN m
     ELSE LET m1 == IF ~Loaded(m, roomId) THEN m
                    ELSE IF Agents(m.rooms[roomId]) \ {agentId} = {}
                      THEN deleteRoom(m, roomId)
                      ELSE [m EXCEPT !.rooms[roomId].agents[agentId] = NoAgent]
          IN [m1 EXCEPT !.agentRooms[agentId] = None]

\* joinRoom without its "await this.leaveCurrentRoom(agentId)" line
joinRoomNoLeave(m0, g, roomId, agentId, ws) ==
  LET sp == findSpawnPoint(g)
      m1 == IF Loaded(m0, roomId)
              THEN [m0 EXCEPT !.rooms[roomId].agents[agentId] =
                      [ws |-> ws, x |-> sp.x, y |-> sp.y, isWalking |-> FALSE,
                       walkPath |-> <<>>, walkInterval |-> FALSE]]
              ELSE m0
  IN [m1 EXCEPT !.agentRooms[agentId] = roomId]

\* joinRoom from "await this.leaveCurrentRoom(agentId)" on.  room is the
\* instance loadRoom returned, which was the registered one; if
\* leaveCurrentRoom has just taken it out of the registry, the agent is set
\* in an instance nothing refers to any more.
joinRoom(m0, g, roomId, agentId, ws) ==
  LET m == leaveCurrentRoom(m0, agentId)
      sp == findSpawnPoint(g)
      m1 == IF Loaded(m, roomId)
              THEN [m EXCEPT !.rooms[roomId].agents[agentId] =
                      [ws |-> ws, x |-> sp.x, y |-> sp.y, isWalking |-> FALSE,
                       walkPath |-> <<>>, walkInterval |-> FALSE],
                    !.timers = @ \cup
                       (IF m.rooms[roomId].agents[agentId].walkInterval
                          THEN {[room |-> roomId, pid |-> agentId,
                                 walkPath |-> m.rooms[roomId].agents[agentId].walkPath]}
                          ELSE {})]
              ELSE m
  IN [m1 EXCEPT !.agentRooms[agentId] = roomId]

\* getRoomAgents / getRoomUsers: the ids listed
getRoomUsers(m, roomId) ==
  IF Loaded(m, roomId) THEN Agents(m.rooms[roomId]) ELSE {}

\* the room whose registered instance holds the agent, None without one
RoomOf(m, agentId) ==
  IF agentId # None /\ m.agentRooms[agentId] # None
     /\ Loaded(m, m.agentRooms[agentId])
     /\ m.rooms[m.agentRooms[agentId]].agents[agentId].ws # 0
    THEN m.agentRooms[agentId] ELSE None

\* getAgentRoom / getUserRoom: is there an instance
getUserRoom(m, agentId) ==
  m.agentRooms[agentId] # None /\ Loaded(m, m.agentRooms[agentId])

addSpectator(m, roomId, ws) ==
  IF Loaded(m, roomId) THEN [m EXCEPT !.rooms[roomId].spectators = @ \cup {ws}] ELSE m

\* removeSpectator that leaves the set as it is
removeSpectatorKeeps(m, roomId, ws) == m

removeSpectator(m, roomId, ws) ==
  IF Loaded(m, roomId) THEN [m EXCEPT !.rooms[roomId].spectators = @ \ {ws}] ELSE m

\* the sockets broadcastToRoom writes to, agents first, then spectators
RECURSIVE AgentTargets(_, _, _, _)
AgentTargets(inst, open, k, excludeAgentId) ==
  IF k > Len(PidSeq) THEN <<>>
  ELSE LET a == inst.agents[PidSeq[k]]
       IN (IF a.ws # 0 /\ PidSeq[k] # excludeAgentId /\ a.ws \in open
             THEN <<a.ws>> ELSE <<>>)
          \o AgentTargets(inst, open, k + 1, excludeAgentId)

broadcastTargets(m, open, roomId, excludeAgentId) ==
  IF ~Loaded(m, roomId) THEN <<>>
  ELSE AgentTargets(m.rooms[roomId], open, 1, excludeAgentId)
       \o SeqOfSockets(m.rooms[roomId].spectators \cap open)

broadcastToRoom(m, open, roomId, type, pid, excludeAgentId) ==
  LET to == broadcastTargets(m, open, roomId, excludeAgentId)
  IN [k \in 1..Len(to) |-> Ev(to[k], type, roomId, pid)]

\* handler.send
send(open, ws, ev) == IF ws \in open THEN <<ev>> ELSE <<>>

\* ------------------------------------------------------------------ state
M == [rooms |-> rooms, agentRooms |-> agentRooms, timers |-> timers]

Store(m) ==
  /\ rooms' = m.rooms
  /\ agentRooms' = m.agentRooms
  /\ timers' = m.timers

FreeTask(k) == tasks[k] = Idle /\ \A j \in TaskIds : j < k => tasks[j] # Idle

Suspend(k, t) == [tasks EXCEPT ![k] = t]
Return(k) == [tasks EXCEPT ![k] = Idle]

Done(t, left, ok) ==
  [NoLast EXCEPT !.op = t.op, !.ws = t.ws, !.pid = t.pid, !.rid = t.rid, !.left = left,
                 !.from = t.from, !.ok = ok]

\* A client event arrives.  The exploration is bounded by a budget: an event
\* costs one unit, and one more for every handler still suspended when it
\* arrives.
InFlight == Cardinality({k \in TaskIds : tasks[k] # Idle})
Receive == ncmd >= 1 + InFlight /\ ncmd' = ncmd - (1 + InFlight)

AllWalkable(w, h) ==
  [w |-> w, h |-> h, null |-> FALSE, t |-> [y \in 0..(h - 1) |-> [x \in 0..(w - 1) |-> 0]]]

\* no call of getActiveRooms: seen is this.rooms as the call found it
NoQuery == [pc |-> "idle", active |-> <<>>, seen |-> [r \in DBRooms |-> NoRoom]]

\* no call of findPath on its own
NoCall == [g |-> AllWalkable(0, 0), sx |-> 0, sy |-> 0, ex |-> 0, ey |-> 0,
           done |-> FALSE, path |-> <<>>]

InitServer ==
  /\ wsOpen = Sockets
  /\ connections = [s \in Sockets |-> None]
  /\ spectators = [s \in Sockets |-> None]
  /\ rooms = [r \in DBRooms |-> NoRoom]
  /\ agentRooms = [p \in Pids |-> None]
  /\ timers = {}
  /\ tasks = [k \in TaskIds |-> Idle]
  /\ out = <<>>
  /\ last = NoLast
  /\ ar = NoQuery

Init ==
  /\ InitServer
  /\ fp = NoCall
  /\ ncmd = MaxCmds
  /\ dbTiles = [r \in DBRooms |-> AllWalkable(2, 2)]
  /\ dbMessages = <<>>

\* ------------------------------------------------------ parseClientMessage
\* The frames a client sends that are none of the commands modelled one by
\* one: json says whether JSON.parse accepts the text, obj whether it yields
\* a non-null object, kind is typeof data.type ("absent" without the key).
RawFrames ==
  {[json |-> FALSE, obj |-> FALSE, kind |-> "absent", type |-> ""],
   [json |-> TRUE, obj |-> FALSE, kind |-> "absent", type |-> ""],
   [json |-> TRUE, obj |-> TRUE, kind |-> "absent", type |-> ""],
   [json |-> TRUE, obj |-> TRUE, kind |-> "number", type |-> ""],
   [json |-> TRUE, obj |-> TRUE, kind |-> "string", type |-> "dance"],
   [json |-> TRUE, obj |-> TRUE, kind |-> "string", type |-> "ping"]}

isClientMessage(raw) == raw.obj /\ raw.kind # "absent" /\ raw.kind = "string"

\* parseClientMessage returns null (FALSE here) or the parsed data
parseClientMessage(raw) == IF raw.json THEN isClientMessage(raw) ELSE FALSE

\* ws.on('message') for those frames: INVALID_MESSAGE when the parse gives
\* null; handleMessage answers ping with pong and has no case, and no
\* default, for any other type
Frame(s, raw) ==
  /\ s \in wsOpen
  /\ Receive
  /\ out' = IF ~parseClientMessage(raw)
              THEN send(wsOpen, s, [Ev(s, "error", None, None)
                                      EXCEPT !.code = "INVALID_MESSAGE"])
              ELSE IF raw.type = "ping" THEN send(wsOpen, s, Ev(s, "pong", None, None))
              ELSE <<>>
  /\ last' = [NoLast EXCEPT !.op = "frame", !.ws = s, !.pid = connections[s],
                            !.arg = raw.type,
                            !.why = IF ~raw.json THEN "not json"
                                    ELSE IF ~raw.obj THEN "not an object"
                                    ELSE raw.kind]
  /\ UNCHANGED <<wsOpen, connections, spectators, rooms, agentRooms, dbTiles, dbMessages, fp, ar,
                 timers, tasks>>

\* ----------------------------------------------------------------- handleAuth
\* handleAuth with a catch that forgets the socket's connection
AuthForgets(s, token) ==
  /\ s \in wsOpen
  /\ Receive
  /\ IF token = "bad"
       THEN /\ out' = send(wsOpen, s, Ev(s, "auth_error", None, None))
            /\ last' = [NoLast EXCEPT !.op = "auth", !.ws = s]
            /\ connections' = [connections EXCEPT ![s] = None]
            /\ UNCHANGED tasks
       ELSE /\ \E k \in TaskIds :
                 /\ FreeTask(k)
                 /\ tasks' = Suspend(k, [Idle EXCEPT !.op = "auth", !.pc = "update",
                                                     !.ws = s, !.pid = token])
            /\ out' = <<>>
            /\ last' = NoLast
            /\ UNCHANGED connections
  /\ UNCHANGED <<wsOpen, spectators, rooms, agentRooms, dbTiles, dbMessages, fp, ar, timers>>

\* message {type: 'auth', token}: jwt.verify, then await db.update(users)
Auth(s, token) ==
  /\ s \in wsOpen
  /\ Receive
  /\ IF token = "bad"
       THEN /\ out' = send(wsOpen, s, Ev(s, "auth_error", None, None))
            /\ last' = [NoLast EXCEPT !.op = "auth", !.ws = s]
            /\ UNCHANGED tasks
       ELSE /\ \E k \in TaskIds :
                 /\ FreeTask(k)
                 /\ tasks' = Suspend(k, [Idle EXCEPT !.op = "auth", !.pc = "update",
                                                     !.ws = s, !.pid = token])
            /\ out' = <<>>
            /\ last' = NoLast
  /\ UNCHANGED <<wsOpen, connections, spectators, rooms, agentRooms, dbTiles, dbMessages, fp, ar, timers>>

\* the update has returned: connections.set(ws, conn); send auth_ok
AuthDone(k) ==
  LET t == tasks[k]
  IN /\ t.op = "auth" /\ t.pc = "update"
     /\ connections' = [connections EXCEPT ![t.ws] = t.pid]
     /\ out' = send(wsOpen, t.ws, Ev(t.ws, "auth_ok", None, t.pid))
     /\ last' = Done(t, None, TRUE)
     /\ tasks' = Return(k)
     /\ UNCHANGED <<wsOpen, spectators, rooms, agentRooms, dbTiles, dbMessages, fp, ar, timers, ncmd>>

\* ----------------------------------------------------------------- join
\* message {type: 'join', roomId}: handleMessage reads connections.get(ws) and
\* calls handleJoin or handleSpectatorJoin, which both start with
\* "await roomManager.loadRoomBySlug(roomId)", suspended at its slug query
Join(s, arg) ==
  /\ s \in wsOpen
  /\ Receive
  /\ \E k \in TaskIds :
       /\ FreeTask(k)
       /\ tasks' = Suspend(k, [Idle EXCEPT
                     !.op = IF connections[s] # None THEN "join" ELSE "sjoin",
                     !.pc = "slug", !.ws = s, !.pid = connections[s], !.arg = arg,
                     !.from = RoomOf(M, connections[s])])
  /\ out' = <<>>
  /\ last' = NoLast
  /\ UNCHANGED <<wsOpen, connections, spectators, rooms, agentRooms, dbTiles, dbMessages, fp, ar, timers>>

\* handleJoin from the point where joinRoom holds the loaded instance:
\* leaveCurrentRoom, the new agent, then room_state to the joiner and
\* agent_joined to the others of the registered room
JoinFinish(k, m0, roomId) ==
  LET t == tasks[k]
  IN \E m \in {joinRoom(m0, dbTiles[roomId], roomId, t.pid, t.ws)} :
       /\ Store(m)
       /\ tasks' = Return(k)
       /\ out' = send(wsOpen, t.ws, [Ev(t.ws, "room_state", roomId, None)
                                       EXCEPT !.agents = getRoomUsers(m, roomId)])
                 \o broadcastToRoom(m, wsOpen, roomId, "agent_joined", t.pid, t.pid)
       /\ last' = Done([t EXCEPT !.rid = roomId], m0.agentRooms[t.pid], TRUE)

\* rooms.id is a uuid column: ids of that form, with or without a row
Uuids == DBRooms \cup {"U"}

\* loadRoom of an id without a row: findFirst returns no row for a uuid, and
\* the handler answers ROOM_NOT_FOUND; for any other string the comparison
\* with the uuid column is refused by the database, the query rejects and the
\* catch of the message handler answers INTERNAL_ERROR
loadRoomError(roomId) ==
  IF roomId \in Uuids THEN "ROOM_NOT_FOUND" ELSE "INTERNAL_ERROR"

\* The room a join names: loadRoomBySlug's row if the slug exists, else the
\* string itself is tried as an id (joinRoom / the second loadRoom).
Target(arg) == IF SlugToId(arg) # None THEN SlugToId(arg) ELSE arg

\* handleJoin, the slug query has returned.  loadRoom either finds the
\* instance in this.rooms, and the join runs to its end, or queries the
\* database.
JoinSlug(k) ==
  LET t == tasks[k]
  IN /\ t.op = "join" /\ t.pc = "slug"
     /\ IF Loaded(M, Target(t.arg))
          THEN JoinFinish(k, M, Target(t.arg))
          ELSE /\ tasks' = Suspend(k, [t EXCEPT !.rid = Target(t.arg), !.pc = "load"])
               /\ out' = <<>>
               /\ last' = NoLast
               /\ UNCHANGED <<rooms, agentRooms, timers>>
     /\ UNCHANGED <<wsOpen, connections, spectators, dbTiles, dbMessages, fp, ar, ncmd>>

\* handleJoin, loadRoom's database reads have returned: an error or null for
\* an unknown id, else the new instance is registered and the join runs to
\* its end
JoinLoad(k) ==
  LET t == tasks[k]
  IN /\ t.op = "join" /\ t.pc = "load"
     /\ IF t.rid \notin DBRooms
          THEN /\ tasks' = Return(k)
               /\ out' = send(wsOpen, t.ws,
                              [Ev(t.ws, "error", None, None) EXCEPT !.code = loadRoomError(t.rid)])
               /\ last' = [Done(t, None, FALSE) EXCEPT !.why = loadRoomError(t.rid)]
               /\ UNCHANGED <<rooms, agentRooms, timers>>
          ELSE JoinFinish(k, loadRoomFinish(M, t.rid), t.rid)
     /\ UNCHANGED <<wsOpen, connections, spectators, dbTiles, dbMessages, fp, ar, ncmd>>

\* ------------------------------------------------------ handleSpectatorJoin
\* from the point where the instance is at hand: drop the previous room's
\* spectator entry, record the new one, addSpectator, send room_state
SpecFinish(k, m0, roomId) ==
  LET t == tasks[k]
      old == spectators[t.ws]
      m1 == IF old # None /\ old # roomId THEN removeSpectator(m0, old, t.ws) ELSE m0
  IN \E m \in {addSpectator(m1, roomId, t.ws)} :
       /\ Store(m)
       /\ spectators' = [spectators EXCEPT ![t.ws] = roomId]
       /\ tasks' = Return(k)
       /\ out' = send(wsOpen, t.ws, [Ev(t.ws, "room_state", roomId, None)
                                       EXCEPT !.agents = getRoomUsers(m, roomId)])
       /\ last' = Done([t EXCEPT !.rid = roomId], old, TRUE)

SpecSlug(k) ==
  LET t == tasks[k]
  IN /\ t.op = "sjoin" /\ t.pc = "slug"
     /\ IF Loaded(M, Target(t.arg))
          THEN SpecFinish(k, M, Target(t.arg))
          ELSE /\ tasks' = Suspend(k, [t EXCEPT !.rid = Target(t.arg), !.pc = "load"])
               /\ out' = <<>>
               /\ last' = NoLast
               /\ UNCHANGED <<rooms, agentRooms, timers, spectators>>
     /\ UNCHANGED <<wsOpen, connections, dbTiles, dbMessages, fp, ar, ncmd>>

SpecLoad(k) ==
  LET t == tasks[k]
  IN /\ t.op = "sjoin" /\ t.pc = "load"
     /\ IF t.rid \notin DBRooms
          THEN /\ tasks' = Return(k)
               /\ out' = send(wsOpen, t.ws,
                              [Ev(t.ws, "error", None, None) EXCEPT !.code = loadRoomError(t.rid)])
               /\ last' = [Done(t, None, FALSE) EXCEPT !.why = loadRoomError(t.rid)]
               /\ UNCHANGED <<rooms, agentRooms, timers, spectators>>
          ELSE SpecFinish(k, loadRoomFinish(M, t.rid), t.rid)
     /\ UNCHANGED <<wsOpen, connections, dbTiles, dbMessages, fp, ar, ncmd>>

\* ------------------------------------------------------------ handleLeave
\* message {type: 'leave'}: ignored without a connection; otherwise
\* leaveCurrentRoom, then agent_left to the room that was left
Leave(s) ==
  /\ s \in wsOpen
  /\ Receive
  /\ IF connections[s] = None
       THEN /\ out' = <<>>
            /\ last' = [NoLast EXCEPT !.op = "leave", !.ws = s]
            /\ UNCHANGED <<rooms, agentRooms, timers>>
       ELSE \E m \in {leaveCurrentRoom(M, connections[s])} :
              /\ Store(m)
              /\ out' = IF agentRooms[connections[s]] # None
                          THEN broadcastToRoom(m, wsOpen, agentRooms[connections[s]],
                                               "agent_left", connections[s], None)
                          ELSE <<>>
              /\ last' = [NoLast EXCEPT !.op = "leave", !.ws = s, !.pid = connections[s],
                                         !.left = agentRooms[connections[s]],
                                         !.from = RoomOf(M, connections[s]),
                                         !.ok = agentRooms[connections[s]] # None]
  /\ UNCHANGED <<wsOpen, connections, spectators, dbTiles, dbMessages, fp, ar, tasks>>

\* ---------------------------------------------------------- ws.on('close')
\* the socket closes (readyState leaves OPEN) and the close handler runs:
\* with a connection, leaveCurrentRoom, agent_left and connections.delete;
\* with a spectator entry, removeSpectator and spectators.delete
Close(s) ==
  /\ s \in wsOpen
  /\ Receive
  /\ wsOpen' = wsOpen \ {s}
  /\ \E m1 \in {IF connections[s] # None THEN leaveCurrentRoom(M, connections[s]) ELSE M} :
       /\ Store(IF spectators[s] # None THEN removeSpectator(m1, spectators[s], s) ELSE m1)
       /\ out' = IF connections[s] # None /\ agentRooms[connections[s]] # None
                   THEN broadcastToRoom(m1, wsOpen \ {s}, agentRooms[connections[s]],
                                        "agent_left", connections[s], None)
                   ELSE <<>>
  /\ connections' = [connections EXCEPT ![s] = None]
  /\ spectators' = [spectators EXCEPT ![s] = None]
  /\ last' = [NoLast EXCEPT
                !.op = "close", !.ws = s, !.pid = connections[s],
                !.from = RoomOf(M, connections[s]),
                !.left = IF connections[s] # None THEN agentRooms[connections[s]] ELSE None,
                !.ok = TRUE]
  /\ UNCHANGED <<dbTiles, dbMessages, fp, ar, tasks>>

\* ------------------------------------------------------------- handleMove
\* moveAgent: "ok" for {success: true}, else the reason of the refusal
moveAgentResult(m, g, agentId, x, y) ==
  LET roomId == m.agentRooms[agentId]
      agent == m.rooms[roomId].agents[agentId]
  IN IF roomId = None THEN "Agent not in any room"
     ELSE IF ~Loaded(m, roomId) THEN "Room not found"
     ELSE IF agent.ws = 0 THEN "Agent not found in room"
     ELSE IF agent.isWalking THEN "Already walking"
     ELSE IF x < 0 \/ y < 0 \/ x >= g.w \/ y >= g.h THEN "out of bounds"
     ELSE IF TileAt(g, x, y) # 0 THEN "not walkable"
     ELSE IF findPath(g, agent.x, agent.y, x, y) = <<>> /\ (agent.x # x \/ agent.y # y)
       THEN "No walkable path"
     ELSE "ok"

\* moveAgent marking the agent as walking before it validates the target
moveAgentEager(m, g, agentId, x, y) ==
  LET roomId == m.agentRooms[agentId]
      agent == m.rooms[roomId].agents[agentId]
  IN IF roomId = None \/ ~Loaded(m, roomId) THEN m
     ELSE IF agent.ws = 0 \/ agent.isWalking THEN m
     ELSE [m EXCEPT !.rooms[roomId].agents[agentId] =
                      [agent EXCEPT !.isWalking = TRUE,
                                    !.walkPath = findPath(g, agent.x, agent.y, x, y),
                                    !.walkInterval = TRUE]]

\* moveAgent and startWalking: on success with a non-empty path the agent is
\* marked walking, keeps the path and gets its interval timer
moveAgent(m, g, agentId, x, y) ==
  LET roomId == m.agentRooms[agentId]
      agent == m.rooms[roomId].agents[agentId]
  IN IF moveAgentResult(m, g, agentId, x, y) # "ok" THEN m
     ELSE IF findPath(g, agent.x, agent.y, x, y) = <<>> THEN m
     ELSE [m EXCEPT !.rooms[roomId].agents[agentId] =
                      [agent EXCEPT !.isWalking = TRUE,
                                    !.walkPath = findPath(g, agent.x, agent.y, x, y),
                                    !.walkInterval = TRUE]]

\* handleMessage without "if (!conn) return" in its move case: handleMove
\* reads conn.userId of undefined and the catch of the message handler answers
MoveUnguarded(s, x, y) ==
  /\ s \in wsOpen
  /\ Receive
  /\ IF connections[s] = None
       THEN /\ out' = send(wsOpen, s, [Ev(s, "error", None, None)
                                        EXCEPT !.code = "INTERNAL_ERROR"])
            /\ last' = [NoLast EXCEPT !.op = "move", !.ws = s]
            /\ UNCHANGED <<rooms, agentRooms, timers>>
       ELSE IF ~getUserRoom(M, connections[s])
         THEN /\ out' = send(wsOpen, s,
                             [Ev(s, "error", None, None) EXCEPT !.code = "NOT_IN_ROOM"])
              /\ last' = [NoLast EXCEPT !.op = "move", !.ws = s, !.pid = connections[s],
                                         !.why = "NOT_IN_ROOM"]
              /\ UNCHANGED <<rooms, agentRooms, timers>>
         ELSE \E g \in {dbTiles[agentRooms[connections[s]]]} :
              \E res \in {moveAgentResult(M, g, connections[s], x, y)} :
                /\ Store(moveAgent(M, g, connections[s], x, y))
                /\ out' = IF res = "ok" THEN <<>>
                          ELSE send(wsOpen, s, [Ev(s, "error", None, None)
                                                  EXCEPT !.code = "INVALID_MOVE"])
                /\ last' = [NoLast EXCEPT
                              !.op = "move", !.ws = s, !.pid = connections[s],
                              !.rid = agentRooms[connections[s]],
                              !.from = RoomOf(M, connections[s]),
                              !.ok = res = "ok", !.why = res,
                              !.x = IF res = "ok" THEN x ELSE -1,
                              !.y = IF res = "ok" THEN y ELSE -1]
  /\ UNCHANGED <<wsOpen, connections, spectators, dbTiles, dbMessages, fp, ar, tasks>>

\* message {type: 'move', x, y}: ignored without a connection; NOT_IN_ROOM
\* when getUserRoom finds no instance; INVALID_MOVE when moveAgent refuses
Move(s, x, y) ==
  /\ s \in wsOpen
  /\ Receive
  /\ IF connections[s] = None
       THEN /\ out' = <<>>
            /\ last' = [NoLast EXCEPT !.op = "move", !.ws = s]
            /\ UNCHANGED <<rooms, agentRooms, timers>>
       ELSE IF ~getUserRoom(M, connections[s])
         THEN /\ out' = send(wsOpen, s,
                             [Ev(s, "error", None, None) EXCEPT !.code = "NOT_IN_ROOM"])
              /\ last' = [NoLast EXCEPT !.op = "move", !.ws = s, !.pid = connections[s],
                                         !.why = "NOT_IN_ROOM"]
              /\ UNCHANGED <<rooms, agentRooms, timers>>
         ELSE \E g \in {dbTiles[agentRooms[connections[s]]]} :
              \E res \in {moveAgentResult(M, g, connections[s], x, y)} :
                /\ Store(moveAgent(M, g, connections[s], x, y))
                /\ out' = IF res = "ok" THEN <<>>
                          ELSE send(wsOpen, s, [Ev(s, "error", None, None)
                                                  EXCEPT !.code = "INVALID_MOVE"])
                /\ last' = [NoLast EXCEPT
                              !.op = "move", !.ws = s, !.pid = connections[s],
                              !.rid = agentRooms[connections[s]],
                              !.from = RoomOf(M, connections[s]),
                              !.ok = res = "ok", !.why = res,
                              !.x = IF res = "ok" THEN x ELSE -1,
                              !.y = IF res = "ok" THEN y ELSE -1]
  /\ UNCHANGED <<wsOpen, connections, spectators, dbTiles, dbMessages, fp, ar, tasks>>

\* ------------------------------------------------------------- walk timer
\* stopWalking that returns at once
stopWalkingNever(m, agentId) == m

\* stopWalking: finds the agent through agentRooms and the registry
stopWalking(m, agentId) ==
  LET roomId == m.agentRooms[agentId]
  IN IF roomId = None THEN m
     ELSE IF ~Loaded(m, roomId) THEN m
     ELSE IF m.rooms[roomId].agents[agentId].ws = 0 THEN m
     ELSE [m EXCEPT !.rooms[roomId].agents[agentId] =
                      [@ EXCEPT !.isWalking = FALSE, !.walkPath = <<>>,
                                !.walkInterval = FALSE]]

\* the setInterval callback of an agent of a registered room fires
WalkTick(roomId, agentId) ==
  LET agent == rooms[roomId].agents[agentId]
  IN /\ Loaded(M, roomId)
     /\ agent.walkInterval
     /\ IF agent.walkPath = <<>>
          THEN /\ Store(stopWalking(M, agentId))
               /\ out' = <<>>
          ELSE \E m \in {[M EXCEPT !.rooms[roomId].agents[agentId] =
                             [agent EXCEPT !.x = Head(agent.walkPath).x,
                                           !.y = Head(agent.walkPath).y,
                                           !.walkPath = Tail(agent.walkPath)]]} :
                 /\ Store(m)
                 /\ out' = [k \in 1..Len(broadcastTargets(m, wsOpen, roomId, None)) |->
                              [Ev(broadcastTargets(m, wsOpen, roomId, None)[k],
                                  "agent_moved", roomId, agentId)
                                 EXCEPT !.x = Head(agent.walkPath).x,
                                        !.y = Head(agent.walkPath).y]]
     /\ last' = NoLast
     /\ UNCHANGED <<wsOpen, connections, spectators, dbTiles, dbMessages, fp, ar, tasks, ncmd>>

\* the setInterval callback of an agent object that is in no registered room
\* fires; with its path used up it calls stopWalking(agentId), which clears
\* the timer of whatever agent the registry now holds under that id, and
\* stays armed itself
StrayTick(z) ==
  /\ z \in timers
  /\ IF z.walkPath = <<>>
       THEN /\ Store(stopWalking(M, z.pid))
            /\ out' = <<>>
       ELSE /\ Store([M EXCEPT !.timers = (@ \ {z}) \cup
                                 {[z EXCEPT !.walkPath = Tail(z.walkPath)]}])
            /\ out' = [k \in 1..Len(broadcastTargets(M, wsOpen, z.room, None)) |->
                         [Ev(broadcastTargets(M, wsOpen, z.room, None)[k],
                             "agent_moved", z.room, z.pid)
                            EXCEPT !.x = Head(z.walkPath).x, !.y = Head(z.walkPath).y]]
  /\ last' = NoLast
  /\ UNCHANGED <<wsOpen, connections, spectators, dbTiles, dbMessages, fp, ar, tasks, ncmd>>

\* ------------------------------------------------------------- handleChat
\* The texts a client sends, by name; a text is a sequence of characters.
ChatInputs == {"empty", "blank", "hi", "long500", "long501"}

Repeat(ch, n) == [i \in 1..n |-> ch]

Text(c) ==
  CASE c = "empty" -> <<>>
    [] c = "blank" -> <<" ", " ">>
    [] c = "hi" -> <<"h", "i">>
    [] c = "long500" -> Repeat("a", MAX_MESSAGE_LENGTH - 1) \o <<"b">>
    [] c = "long501" -> Repeat("a", MAX_MESSAGE_LENGTH - 1) \o <<"b", "c">>

\* content.slice(0, n) of a text no shorter than n
sliceFromOne(content, n) == SubSeq(content, 2, n + 1)

slice(content, n) == SubSeq(content, 1, n)

\* the content handleChat hands to addMessage
Clipped(content) ==
  IF Len(content) > MAX_MESSAGE_LENGTH THEN slice(content, MAX_MESSAGE_LENGTH) ELSE content

\* addMessage after its insert, without the trim of the history
pushMessageNoTrim(history, msg) == Append(history, msg)

\* addMessage after its insert: push, then shift when over the limit
pushMessage(history, msg) ==
  IF Len(Append(history, msg)) > MESSAGE_HISTORY_LIMIT
    THEN Tail(Append(history, msg))
    ELSE Append(history, msg)

\* message {type: 'chat', message}: ignored without a connection; NOT_IN_ROOM
\* when getUserRoom finds no instance; dropped when the text is empty or
\* addMessage finds no agent; otherwise addMessage is suspended at its insert,
\* holding the instance it has read from the registry
Chat(s, c) ==
  /\ s \in wsOpen
  /\ Receive
  /\ IF connections[s] = None
       THEN /\ out' = <<>>
            /\ last' = [NoLast EXCEPT !.op = "chat", !.ws = s, !.arg = c]
            /\ UNCHANGED <<rooms, tasks>>
       ELSE IF ~getUserRoom(M, connections[s])
         THEN /\ out' = send(wsOpen, s,
                             [Ev(s, "error", None, None) EXCEPT !.code = "NOT_IN_ROOM"])
              /\ last' = [NoLast EXCEPT !.op = "chat", !.ws = s, !.pid = connections[s],
                                         !.arg = c, !.why = "NOT_IN_ROOM"]
              /\ UNCHANGED <<rooms, tasks>>
         ELSE IF Text(c) = <<>> \/ RoomOf(M, connections[s]) = None
           THEN /\ out' = <<>>
                /\ last' = [NoLast EXCEPT !.op = "chat", !.ws = s, !.pid = connections[s],
                                           !.rid = agentRooms[connections[s]], !.arg = c,
                                           !.why = IF Text(c) = <<>> THEN "empty"
                                                   ELSE "no agent"]
                /\ UNCHANGED <<rooms, tasks>>
           ELSE /\ \E k \in TaskIds :
                     /\ FreeTask(k)
                     /\ tasks' = Suspend(k, [Idle EXCEPT
                                   !.op = "chat", !.pc = "insert", !.ws = s,
                                   !.pid = connections[s], !.arg = c,
                                   !.rid = agentRooms[connections[s]],
                                   !.from = RoomOf(M, connections[s])])
                     /\ rooms' = [rooms EXCEPT
                                   ![agentRooms[connections[s]]].held = @ \cup {k}]
                /\ out' = <<>>
                /\ last' = NoLast
  /\ UNCHANGED <<wsOpen, connections, spectators, agentRooms, timers, dbTiles, dbMessages, fp, ar>>

\* the database runs the insert of a suspended addMessage: the row gets its
\* createdAt from the database clock, later than that of every row before it
ChatInsert(k) ==
  LET t == tasks[k]
  IN /\ t.op = "chat" /\ t.pc = "insert"
     /\ dbMessages' = Append(dbMessages,
                             [room |-> t.rid, pid |-> t.pid,
                              content |-> Clipped(Text(t.arg)),
                              createdAt |-> Len(dbMessages) + 1])
     /\ tasks' = Suspend(k, [t EXCEPT !.pc = "reply", !.at = Len(dbMessages) + 1])
     /\ out' = <<>>
     /\ last' = NoLast
     /\ UNCHANGED <<wsOpen, connections, spectators, rooms, agentRooms, timers, dbTiles,
                    fp, ar, ncmd>>

\* what the catch of ws.on('message') writes, nothing at all
catchHandlerSilent(open, ws) == <<>>

\* the catch of ws.on('message'): INTERNAL_ERROR to the socket of the command
catchHandler(open, ws) ==
  send(open, ws, [Ev(ws, "error", None, None) EXCEPT !.code = "INTERNAL_ERROR"])

\* the insert of a suspended addMessage is rejected: the await throws out of
\* addMessage, handleChat and handleMessage into the catch of the message
\* handler; no row is written, nothing is pushed or broadcast
ChatFail(k) ==
  LET t == tasks[k]
  IN /\ t.op = "chat" /\ t.pc = "insert"
     /\ rooms' = IF Loaded(M, t.rid) /\ k \in rooms[t.rid].held
                   THEN [rooms EXCEPT ![t.rid].held = @ \ {k}]
                   ELSE rooms
     /\ out' = catchHandler(wsOpen, t.ws)
     /\ tasks' = Return(k)
     /\ last' = [NoLast EXCEPT !.op = "chat", !.ws = t.ws, !.pid = t.pid, !.rid = t.rid,
                               !.from = t.from, !.arg = t.arg, !.why = "insert failed"]
     /\ UNCHANGED <<wsOpen, connections, spectators, agentRooms, timers, dbTiles,
                    dbMessages, fp, ar, ncmd>>

\* the insert has returned its row: addMessage pushes the ChatMessage on the
\* history of the instance it holds, which the registry may have dropped or
\* replaced since, and handleChat broadcasts it to the registered room
ChatDone(k) ==
  LET t == tasks[k]
      msg == ChatMessage(t.pid, Clipped(Text(t.arg)), t.at)
      kept == Loaded(M, t.rid) /\ k \in rooms[t.rid].held
  IN /\ t.op = "chat" /\ t.pc = "reply"
     /\ rooms' = IF kept
                   THEN [rooms EXCEPT
                           ![t.rid].messageHistory = pushMessage(@, msg),
                           ![t.rid].held = @ \ {k}]
                   ELSE rooms
     /\ out' = [i \in 1..Len(broadcastTargets(M, wsOpen, t.rid, None)) |->
                  [Ev(broadcastTargets(M, wsOpen, t.rid, None)[i], "chat_message",
                      t.rid, t.pid)
                     EXCEPT !.content = msg.content, !.at = msg.createdAt]]
     /\ tasks' = Return(k)
     /\ last' = [NoLast EXCEPT !.op = "chat", !.ws = t.ws, !.pid = t.pid, !.rid = t.rid,
                               !.from = t.from, !.ok = TRUE, !.arg = t.arg, !.at = t.at,
                               !.why = IF kept THEN "kept" ELSE "stale"]
     /\ UNCHANGED <<wsOpen, connections, spectators, agentRooms, timers, dbTiles,
                    dbMessages, fp, ar, ncmd>>

\* --------------------------------------------------------- getActiveRooms
\* room.room.slug: the lobby's, or that of a room a join reaches by id
SlugOf(roomId) == IF roomId = SlugToId("lobby") THEN "lobby" ELSE "room"

getRoomInfo(inst) ==
  [id |-> inst.id, slug |-> SlugOf(inst.id),
   agentCount |-> Cardinality(Agents(inst)),
   spectatorCount |-> Cardinality(inst.spectators)]

\* the instances of this.rooms in the order forEach visits them
RoomsInOrder(m) ==
  [i \in 1..Cardinality({r \in DBRooms : Loaded(m, r)}) |->
     m.rooms[CHOOSE r \in DBRooms : Loaded(m, r) /\ m.rooms[r].order = i]]

\* the forEach of getActiveRooms that lists every instance
listEveryRoom(m) ==
  LET all == RoomsInOrder(m)
  IN [i \in 1..Len(all) |-> getRoomInfo(all[i])]

\* the forEach of getActiveRooms: roomMap, as the sequence of its values
listRooms(m) ==
  LET all == RoomsInOrder(m)
      kept == SelectSeq(all, LAMBDA inst :
                               SlugOf(inst.id) = "lobby" \/ Cardinality(Agents(inst)) > 0)
  IN [i \in 1..Len(kept) |-> getRoomInfo(kept[i])]

hasLobby(m) == \E r \in DBRooms : Loaded(m, r) /\ SlugOf(r) = "lobby"

\* the comparator of the final sort
compareRooms(a, b) ==
  IF a.slug = "lobby" /\ a.agentCount = 0 THEN -1
  ELSE IF b.slug = "lobby" /\ b.agentCount = 0 THEN 1
  ELSE b.agentCount - a.agentCount

\* Array.prototype.sort with that comparator: a stable sort
RECURSIVE InsertRoom(_, _)
InsertRoom(sorted, e) ==
  IF sorted = <<>> THEN <<e>>
  ELSE IF compareRooms(Head(sorted), e) <= 0
    THEN <<Head(sorted)>> \o InsertRoom(Tail(sorted), e)
    ELSE <<e>> \o sorted

RECURSIVE sortRooms(_)
sortRooms(list) ==
  IF list = <<>> THEN <<>>
  ELSE InsertRoom(sortRooms(SubSeq(list, 1, Len(list) - 1)), list[Len(list)])

\* the entry made for the lobby row when no instance of it was found
lobbyEntry ==
  [id |-> SlugToId("lobby"), slug |-> "lobby", agentCount |-> 0, spectatorCount |-> 0]

\* GET /api/rooms/active calls getActiveRooms: with the lobby loaded it
\* returns at once, without it waits for the lobby's row
ActiveRooms ==
  /\ ar.pc # "lobby"
  /\ Receive
  /\ ar' = IF hasLobby(M)
             THEN [pc |-> "done", active |-> sortRooms(listRooms(M)), seen |-> rooms]
             ELSE [pc |-> "lobby", active |-> listRooms(M), seen |-> rooms]
  /\ out' = <<>>
  /\ last' = NoLast
  /\ UNCHANGED <<wsOpen, connections, spectators, rooms, agentRooms, dbTiles, dbMessages, fp,
                 timers, tasks>>

\* the lobby's row has come: its entry is added unless roomMap has one
ActiveRoomsLobby ==
  /\ ar.pc = "lobby"
  /\ ar' = [ar EXCEPT
              !.pc = "done",
              !.active = sortRooms(IF \E i \in 1..Len(ar.active) : ar.active[i].id = lobbyEntry.id
                                     THEN ar.active
                                     ELSE Append(ar.active, lobbyEntry))]
  /\ out' = <<>>
  /\ last' = NoLast
  /\ UNCHANGED <<wsOpen, connections, spectators, rooms, agentRooms, dbTiles, dbMessages, fp,
                 timers, tasks, ncmd>>

\* ------------------------------------------------------------ specification
Next ==
  \/ \E s \in Sockets, token \in Tokens : Auth(s, token)
  \/ \E k \in TaskIds : AuthDone(k)
  \/ \E s \in Sockets, arg \in JoinArgs : Join(s, arg)
  \/ \E k \in TaskIds : JoinSlug(k)
  \/ \E k \in TaskIds : JoinLoad(k)
  \/ \E k \in TaskIds : SpecSlug(k)
  \/ \E k \in TaskIds : SpecLoad(k)
  \/ \E s \in Sockets : Leave(s)
  \/ \E s \in Sockets : Close(s)
  \/ \E s \in Sockets, raw \in RawFrames : Frame(s, raw)

Spec == Init /\ [][Next]_vars

\* ------------------------------------------------- walking, on every grid
\* The same server with room A holding any GridW x GridH tile data, or a
\* GridW x GridW row whose tiles column is NULL (the default tiles need an
\* interior), one client, and the move command and the walk timers.
GridW == 3
GridH == 2
MaxWalkCmds == 9

Grids ==
  {[w |-> GridW, h |-> GridH, null |-> FALSE, t |-> t] :
     t \in [0..(GridH - 1) -> [0..(GridW - 1) -> {0, 1}]]}
  \cup {[AllWalkable(GridW, GridW) EXCEPT !.null = TRUE]}

InitWalk ==
  /\ InitServer
  /\ fp = NoCall
  /\ ncmd = MaxWalkCmds
  /\ \E g \in Grids : dbTiles = [r \in DBRooms |-> IF r = "A" THEN g ELSE AllWalkable(2, 2)]
  /\ dbMessages = <<>>

WalkSockets == {1}
WalkArgs == {"A"}

NextWalk ==
  \/ \E s \in WalkSockets : Auth(s, "p1")
  \/ \E k \in TaskIds : AuthDone(k)
  \/ \E s \in WalkSockets, arg \in WalkArgs : Join(s, arg)
  \/ \E k \in TaskIds : JoinSlug(k)
  \/ \E k \in TaskIds : JoinLoad(k)
  \/ \E k \in TaskIds : SpecSlug(k)
  \/ \E k \in TaskIds : SpecLoad(k)
  \/ \E s \in WalkSockets : Leave(s)
  \/ \E s \in WalkSockets, x \in -1..GridW, y \in -1..GridW : Move(s, x, y)
  \/ \E r \in DBRooms, p \in Pids : WalkTick(r, p)
  \/ \E z \in timers : StrayTick(z)

SpecWalk == InitWalk /\ [][NextWalk]_vars

\* The same with the timers running: the callback of an interval that is
\* armed on an agent of a registered room is called again and again (every
\* 250 ms) until the interval is cleared.
MaxFairCmds == 6

InitFair ==
  /\ InitServer
  /\ fp = NoCall
  /\ ncmd = MaxFairCmds
  /\ \E g \in Grids : dbTiles = [r \in DBRooms |-> IF r = "A" THEN g ELSE AllWalkable(2, 2)]
  /\ dbMessages = <<>>

FairWalk == \A r \in DBRooms, p \in Pids : WF_vars(WalkTick(r, p))

SpecWalkFair == InitFair /\ [][NextWalk]_vars /\ FairWalk

\* ------------------------------------------------- findPath, on its own
\* findPath called as moveAgent calls it, with a start and a target that are
\* in-bounds walkable tiles, on PathW x PathH tile data: every pattern with
\* at most MaxBlocked blocked tiles, and every pattern whose columns from
\* DenseW on are blocked (any maze in the DenseW x PathH corner).
PathW == 5
PathH == 3
MaxBlocked == 2
DenseW == 3

BlockedIn(t) == {c \in (0..(PathW - 1)) \X (0..(PathH - 1)) : t[c[2]][c[1]] = 1}

PathGrids ==
  {[w |-> PathW, h |-> PathH, null |-> FALSE, t |-> t] :
     t \in {u \in [0..(PathH - 1) -> [0..(PathW - 1) -> {0, 1}]] :
              \/ Cardinality(BlockedIn(u)) <= MaxBlocked
              \/ \A x \in DenseW..(PathW - 1), y \in 0..(PathH - 1) : u[y][x] = 1}}

InitPath ==
  /\ InitServer
  /\ ncmd = 0
  /\ dbTiles = [r \in DBRooms |-> AllWalkable(2, 2)]
  /\ dbMessages = <<>>
  /\ \E g \in PathGrids, sx, ex \in 0..(PathW - 1), sy, ey \in 0..(PathH - 1) :
       /\ TileAt(g, sx, sy) = 0 /\ TileAt(g, ex, ey) = 0
       /\ fp = [g |-> g, sx |-> sx, sy |-> sy, ex |-> ex, ey |-> ey,
                done |-> FALSE, path |-> <<>>]

\* the call returns
FindPath ==
  /\ ~fp.done
  /\ fp' = [fp EXCEPT !.done = TRUE,
                      !.path = findPath(fp.g, fp.sx, fp.sy, fp.ex, fp.ey)]
  /\ UNCHANGED <<wsOpen, connections, spectators, rooms, agentRooms, dbTiles, dbMessages,
                 timers, tasks, ncmd, out, last, ar>>

NextPath == FindPath

SpecPath == InitPath /\ [][NextPath]_vars

\* ------------------------------------------------------- chat and history
\* The same server with a client for each participant, room A and its
\* messages table holding none, one fewer than the history keeps, or one more
\* than it keeps.
MaxChatCmds == 7

OldRows == {0, MESSAGE_HISTORY_LIMIT - 1, MESSAGE_HISTORY_LIMIT + 1}

InitChat ==
  /\ InitServer
  /\ fp = NoCall
  /\ ncmd = MaxChatCmds
  /\ dbTiles = [r \in DBRooms |-> AllWalkable(2, 2)]
  /\ \E n \in OldRows :
       dbMessages = [i \in 1..n |-> [room |-> "A", pid |-> "p2", content |-> <<"o">>,
                                     createdAt |-> i]]

\* socket s is the client of participant PidSeq[s]
ChatSockets == 1..Len(PidSeq)

NextChat ==
  \/ \E s \in ChatSockets : Auth(s, PidSeq[s])
  \/ \E k \in TaskIds : AuthDone(k)
  \/ \E s \in ChatSockets, arg \in WalkArgs : Join(s, arg)
  \/ \E k \in TaskIds : JoinSlug(k)
  \/ \E k \in TaskIds : JoinLoad(k)
  \/ \E k \in TaskIds : SpecSlug(k)
  \/ \E k \in TaskIds : SpecLoad(k)
  \/ \E s \in ChatSockets : Leave(s)
  \/ \E s \in ChatSockets, c \in ChatInputs : Chat(s, c)
  \/ \E k \in TaskIds : ChatInsert(k)
  \/ \E k \in TaskIds : ChatDone(k)
  \/ \E k \in TaskIds : ChatFail(k)

SpecChat == InitChat /\ [][NextChat]_vars

\* ------------------------------------------------------------ every command
\* The server with a client for each participant, room A with its 2 x 2
\* tiles, and every command, frame, database reply and timer.
MaxAllCmds == 6

AllTexts == {"hi", "empty"}

InitAll ==
  /\ InitServer
  /\ fp = NoCall
  /\ ncmd = MaxAllCmds
  /\ dbTiles = [r \in DBRooms |-> AllWalkable(2, 2)]
  /\ dbMessages = <<>>

NextAll ==
  \/ \E s \in ChatSockets : Auth(s, PidSeq[s])
  \/ \E k \in TaskIds : AuthDone(k)
  \/ \E s \in ChatSockets, arg \in WalkArgs : Join(s, arg)
  \/ \E k \in TaskIds : JoinSlug(k)
  \/ \E k \in TaskIds : JoinLoad(k)
  \/ \E k \in TaskIds : SpecSlug(k)
  \/ \E k \in TaskIds : SpecLoad(k)
  \/ \E s \in ChatSockets : Leave(s)
  \/ \E s \in ChatSockets : Close(s)
  \/ \E s \in ChatSockets, x \in 0..1, y \in 0..1 : Move(s, x, y)
  \/ \E r \in DBRooms, p \in Pids : WalkTick(r, p)
  \/ \E z \in timers : StrayTick(z)
  \/ \E s \in ChatSockets, c \in AllTexts : Chat(s, c)
  \/ \E k \in TaskIds : ChatInsert(k)
  \/ \E k \in TaskIds : ChatDone(k)
  \/ \E k \in TaskIds : ChatFail(k)
  \/ \E s \in ChatSockets, raw \in RawFrames : Frame(s, raw)

SpecAll == InitAll /\ [][NextAll]_vars

\* ------------------------------------------------------ the list of rooms
\* The server with two sockets, joins of the lobby and of room A, and the
\* active-rooms query.
MaxRoomCmds == 6

RoomArgs == {"lobby", "A"}

InitRooms ==
  /\ InitServer
  /\ fp = NoCall
  /\ ncmd = MaxRoomCmds
  /\ dbTiles = [r \in DBRooms |-> AllWalkable(2, 2)]
  /\ dbMessages = <<>>

NextRooms ==
  \/ \E s \in Sockets, token \in Pids : Auth(s, token)
  \/ \E k \in TaskIds : AuthDone(k)
  \/ \E s \in Sockets, arg \in RoomArgs : Join(s, arg)
  \/ \E k \in TaskIds : JoinSlug(k)
  \/ \E k \in TaskIds : JoinLoad(k)
  \/ \E k \in TaskIds : SpecSlug(k)
  \/ \E k \in TaskIds : SpecLoad(k)
  \/ \E s \in Sockets : Leave(s)
  \/ \E s \in Sockets : Close(s)
  \/ ActiveRooms
  \/ ActiveRoomsLobby

SpecRooms == InitRooms /\ [][NextRooms]_vars

\* ================================================================= claims
\* Vocabulary.  A socket is attached to room r as a participant when it holds
\* a connection whose userId the registry maps to r, and as a spectator when
\* its spectator entry names r.  A socket that has joined a room as a
\* participant is attached to that room only.
IsParticipantOf(s, r) == connections[s] # None /\ agentRooms[connections[s]] = r
IsSpectatorOf(s, r) == spectators[s] = r
InSomeRoom(s) == connections[s] # None /\ agentRooms[connections[s]] # None
AttachedTo(s, r) == IF InSomeRoom(s) THEN IsParticipantOf(s, r) ELSE IsSpectatorOf(s, r)
SolePid(s) == \A s2 \in wsOpen \ {s} : connections[s2] # connections[s]

\* the agents map of the registered instance of r holds p
InAgents(r, p) == Loaded(M, r) /\ rooms[r].agents[p].ws # 0

\* the last step wrote a frame of this type about participant p of room r to s
Got(s, type, r, p) ==
  \E i \in 1..Len(out) :
    out[i].to = s /\ out[i].type = type /\ out[i].room = r /\ out[i].pid = p

\* the room and type of the event the handler that just returned has handed
\* to broadcastToRoom, None when it has not
BroadcastRoom ==
  IF last.op = "join" /\ last.ok THEN last.rid
  ELSE IF last.op \in {"leave", "close"} /\ last.left # None THEN last.left
  ELSE None
BroadcastType == IF last.op = "join" THEN "agent_joined" ELSE "agent_left"

\* a socket other than the one the last handler served, and of another participant
Bystander(s) == s \in wsOpen /\ s # last.ws /\ connections[s] # last.pid

\* C1: whatever the interleaving of auth, join, leave and close, overlapping
\* room loads of two joins of one participant included, a participant id is in
\* the agents map of at most one loaded room.
C1_AtMostOneRoom ==
  \A p \in Pids : Cardinality({r \in DBRooms : InAgents(r, p)}) <= 1

\* C1 witness: a join of participant p to room r has returned with p attached
\* while a second join of p to r, which found r unloaded as well, still waits
\* for its own load of r.
C1_OverlappingJoins ==
  \E k \in TaskIds :
    /\ tasks[k].op = "join" /\ tasks[k].pc = "load"
    /\ last.op = "join" /\ last.ok
    /\ tasks[k].pid = last.pid /\ tasks[k].rid = last.rid
    /\ InAgents(last.rid, last.pid)

\* C2: at every moment at most one open socket is bound to a given
\* participant id (a second auth with the id displaces the first socket).
C2_OneOpenSocketPerPid ==
  \A s1, s2 \in wsOpen :
    (s1 # s2 /\ connections[s1] # None) => connections[s1] # connections[s2]

\* C3: with no command in progress, a room other than the lobby is loaded if
\* and only if a participant or a spectator is attached to it.
C3_LoadedIffAttached ==
  InFlight = 0 =>
    \A r \in DBRooms \ {SlugToId("lobby")} :
      Loaded(M, r) <=> (\/ \E p \in Pids : agentRooms[p] = r
                        \/ \E s \in Sockets : spectators[s] = r)

\* C4: once the lobby is loaded it stays in the registry, whatever joins,
\* switches, leaves and disconnects follow.
C4_LobbyStaysLoaded ==
  [][rooms[SlugToId("lobby")].id # None => rooms'[SlugToId("lobby")].id # None]_vars

\* C5: an event broadcast for room r is delivered to every open socket that is
\* attached to r (and was before the step, being a socket of another
\* participant than the one the event is about).
C5_BroadcastDelivered ==
  \A s \in Sockets, r \in DBRooms :
    (/\ BroadcastRoom = r
     /\ Bystander(s) /\ SolePid(s)
     /\ IsParticipantOf(s, r) \/ (connections[s] = None /\ IsSpectatorOf(s, r)))
      => Got(s, BroadcastType, r, last.pid)

\* C6: a socket receives a room's broadcast events (agent_joined, agent_left)
\* only while it is attached to that room: none after it has left it, joined
\* another room or closed.
C6_OnlyAttachedReceive ==
  \A i \in 1..Len(out) :
    out[i].type \in {"agent_joined", "agent_left"}
      => out[i].to \in wsOpen /\ AttachedTo(out[i].to, out[i].room)

\* C7: when a participant attached to room A joins another existing room B,
\* it is removed from A and attached to B, and every socket that remains
\* attached to A receives agent_left for it.
C7_SwitchAnnounced ==
  (/\ last.op = "join" /\ last.ok
   /\ last.from # None /\ last.from = last.left /\ last.left # last.rid) =>
    /\ ~InAgents(last.left, last.pid)
    /\ InAgents(last.rid, last.pid)
    /\ \A s \in Sockets :
         (Bystander(s) /\ AttachedTo(s, last.left))
           => Got(s, "agent_left", last.left, last.pid)

\* C8: a participant that joins the room it is attached to receives a
\* room_state that lists it, and is then attached to that room: the room is
\* loaded, the participant is in its agents map and its commands find its room.
C8_RejoinKeepsAttached ==
  (last.op = "join" /\ last.ok /\ last.from = last.rid /\ last.left = last.rid) =>
    /\ last.ws \in wsOpen =>
         \E i \in 1..Len(out) :
           /\ out[i].to = last.ws /\ out[i].type = "room_state"
           /\ out[i].room = last.rid /\ last.pid \in out[i].agents
    /\ InAgents(last.rid, last.pid)
    /\ getUserRoom(M, last.pid)

\* C9: when a participant joins the room it is attached to, another socket of
\* that room sees agent_joined for it only after an agent_left for it.
C9_NoBareRejoinNotice ==
  (last.op = "join" /\ last.ok /\ last.from = last.rid /\ last.left = last.rid) =>
    \A i \in 1..Len(out) :
      (out[i].type = "agent_joined" /\ out[i].pid = last.pid) =>
        \E j \in 1..(i - 1) :
          /\ out[j].to = out[i].to /\ out[j].type = "agent_left"
          /\ out[j].room = out[i].room /\ out[j].pid = last.pid

\* Vocabulary of paths.  An admissible step leads from tile a to one of its
\* eight neighbours b that is in bounds and walkable and, when diagonal, has
\* both tiles that share the corner walkable.
IsStep(g, a, b) ==
  /\ a # b /\ Abs(a.x - b.x) <= 1 /\ Abs(a.y - b.y) <= 1
  /\ TileAt(g, b.x, b.y) = 0
  /\ (a.x # b.x /\ a.y # b.y) => (TileAt(g, b.x, a.y) = 0 /\ TileAt(g, a.x, b.y) = 0)

Cells(g) == {Pt(x, y) : x \in Cols(g), y \in Rows(g)}

\* the tiles admissible steps lead to from a set of tiles, to a fixed point
RECURSIVE ReachFrom(_, _)
ReachFrom(g, S) ==
  LET T == S \cup {b \in Cells(g) : \E a \in S : IsStep(g, a, b)}
  IN IF T = S THEN S ELSE ReachFrom(g, T)

StepCost(a, b) == IF a.x # b.x /\ a.y # b.y THEN 14 ELSE 10

\* the cost of walking path p from tile a, in tenths
RECURSIVE PathCost(_, _)
PathCost(a, p) ==
  IF p = <<>> THEN 0 ELSE StepCost(a, Head(p)) + PathCost(Head(p), Tail(p))

\* the pairs of a tile and the cost of some walk of admissible steps that
\* leads to it at a cost of at most max, to a fixed point
RECURSIVE WalksWithin(_, _, _)
WalksWithin(g, S, max) ==
  LET T == S \cup {e \in [c : Cells(g), k : 0..max] :
                     \E d \in S : IsStep(g, d.c, e.c) /\ e.k = d.k + StepCost(d.c, e.c)}
  IN IF T = S THEN S ELSE WalksWithin(g, T, max)

\* some walk of admissible steps leads from a to b at a cost below k
CheaperWalk(g, a, b, k) ==
  k > 0 /\ \E e \in WalksWithin(g, {[c |-> a, k |-> 0]}, k - 1) : e.c = b

FpStart == Pt(fp.sx, fp.sy)
FpEnd == Pt(fp.ex, fp.ey)

\* the messageHistory of the registered instance of r
History(r) == rooms[r].messageHistory

\* C17: the history of a loaded room never holds more than
\* MESSAGE_HISTORY_LIMIT messages, after the load and after every chat; a chat
\* added to a full history drops the oldest message and goes to the tail.
C17_HistoryBounded ==
  [][/\ \A r \in DBRooms : Len(rooms'[r].messageHistory) <= MESSAGE_HISTORY_LIMIT
     /\ (/\ last'.op = "chat" /\ last'.why = "kept"
         /\ Len(History(last'.rid)) = MESSAGE_HISTORY_LIMIT)
          => /\ Len(rooms'[last'.rid].messageHistory) = MESSAGE_HISTORY_LIMIT
             /\ \A i \in 1..(MESSAGE_HISTORY_LIMIT - 1) :
                  rooms'[last'.rid].messageHistory[i] = History(last'.rid)[i + 1]
             /\ rooms'[last'.rid].messageHistory[MESSAGE_HISTORY_LIMIT].createdAt = last'.at
             /\ rooms'[last'.rid].messageHistory[MESSAGE_HISTORY_LIMIT].pid = last'.pid]_vars

\* C17 witness: a chat has been added to a history that was full
C17_OldestDropped ==
  /\ last.op = "chat" /\ last.why = "kept"
  /\ Len(History(last.rid)) = MESSAGE_HISTORY_LIMIT
  /\ History(last.rid)[1].createdAt > 1
  /\ History(last.rid)[MESSAGE_HISTORY_LIMIT].createdAt = last.at

\* C18: in every reachable state the history of a loaded room is ordered by
\* createdAt, oldest first, whatever the order in which overlapping inserts
\* return.
C18_HistoryOrdered ==
  \A r \in DBRooms : \A i \in 1..(Len(History(r)) - 1) :
    History(r)[i].createdAt <= History(r)[i + 1].createdAt

\* the first n characters of a text
FirstChars(content, n) == [i \in 1..Min(n, Len(content)) |-> content[i]]

\* the rows of the messages table written at createdAt
RowsAt(createdAt) == {i \in 1..Len(dbMessages) : dbMessages[i].createdAt = createdAt}

\* C19: a chat longer than MAX_MESSAGE_LENGTH is not refused: what is
\* persisted, what is appended to the history and what is broadcast is its
\* first MAX_MESSAGE_LENGTH characters; a shorter chat goes through as sent.
\* (An insert the database rejects is answered by an error whatever the
\* length.)
C19_ChatClipped ==
  /\ (last.op = "chat" /\ Text(last.arg) # <<>> /\ last.why # "insert failed") =>
        \A i \in 1..Len(out) : out[i].type = "error" => out[i].code = "NOT_IN_ROOM"
  /\ (last.op = "chat" /\ last.ok) =>
       /\ \A i \in RowsAt(last.at) :
            dbMessages[i].content = FirstChars(Text(last.arg), MAX_MESSAGE_LENGTH)
       /\ RowsAt(last.at) # {}
       /\ \A i \in 1..Len(out) :
            out[i].content = FirstChars(Text(last.arg), MAX_MESSAGE_LENGTH)
       /\ last.why = "kept" =>
            History(last.rid)[Len(History(last.rid))].content
              = FirstChars(Text(last.arg), MAX_MESSAGE_LENGTH)

\* C19 witness: a chat of more than MAX_MESSAGE_LENGTH characters has been
\* stored, kept in the history and broadcast to its sender
C19_LongChat ==
  /\ last.op = "chat" /\ last.ok /\ last.why = "kept"
  /\ Len(Text(last.arg)) > MAX_MESSAGE_LENGTH
  /\ \E i \in 1..Len(out) : out[i].to = last.ws /\ out[i].type = "chat_message"

\* a text with nothing but white space in it
IsBlank(content) == \A i \in 1..Len(content) : content[i] = " "

\* C20: a chat whose text is empty, or empty once white space is trimmed, is
\* dropped: no row, no history entry and no frame carries such a text.
C20_BlankDropped ==
  /\ \A i \in 1..Len(dbMessages) : ~IsBlank(dbMessages[i].content)
  /\ \A r \in DBRooms : \A i \in 1..Len(History(r)) : ~IsBlank(History(r)[i].content)
  /\ \A i \in 1..Len(out) : out[i].type = "chat_message" => ~IsBlank(out[i].content)
  /\ (last.op = "chat" /\ IsBlank(Text(last.arg))) => out = <<>> \/ last.why = "NOT_IN_ROOM"

\* the frames of this type about participant p that the last step wrote to s
Frames(s, type, p) ==
  {i \in 1..Len(out) : out[i].to = s /\ out[i].type = type /\ out[i].pid = p}

\* C21: an accepted chat of a participant of room r puts exactly one
\* chat_message, with the author's id, on every open socket attached to r when
\* it is sent, the author's own included.  Only chats whose author is still in
\* the registered instance of r, the one the message was pushed on, are looked
\* at.
C21_ChatDelivered ==
  (last.op = "chat" /\ last.ok /\ last.why = "kept" /\ InAgents(last.rid, last.pid)) =>
    \A s \in wsOpen :
      AttachedTo(s, last.rid) => Cardinality(Frames(s, "chat_message", last.pid)) = 1

\* C22: when the insert of a chat fails the message is dropped: no row, no
\* history entry and no broadcast; the author's socket gets exactly one frame,
\* error INTERNAL_ERROR; no socket is closed and every participant stays
\* attached where it was.
C22_FailedInsertDropped ==
  [][(last'.op = "chat" /\ last'.why = "insert failed")
       => /\ out' = <<[Ev(last'.ws, "error", None, None) EXCEPT !.code = "INTERNAL_ERROR"]>>
          /\ dbMessages' = dbMessages
          /\ \A r \in DBRooms :
               /\ rooms'[r].messageHistory = rooms[r].messageHistory
               /\ rooms'[r].agents = rooms[r].agents
               /\ rooms'[r].spectators = rooms[r].spectators
               /\ rooms'[r].id = rooms[r].id
          /\ wsOpen' = wsOpen /\ agentRooms' = agentRooms
          /\ connections' = connections]_vars

\* C22 witness: an insert has failed for a chat in a room with two participants
C22_InsertFailed ==
  /\ last.op = "chat" /\ last.why = "insert failed"
  /\ InAgents(last.rid, last.pid)
  /\ \E p \in Pids \ {last.pid} : InAgents(last.rid, p)

\* C23: an auth whose token fails verification is answered with auth_error
\* and nothing else: the socket stays open, keeps the identity it had, if any,
\* and every attachment stays as it was.
C23_BadTokenNoEffect ==
  [][(last'.op = "auth" /\ ~last'.ok)
       => /\ out' = <<Ev(last'.ws, "auth_error", None, None)>>
          /\ wsOpen' = wsOpen /\ connections' = connections /\ spectators' = spectators
          /\ rooms' = rooms /\ agentRooms' = agentRooms]_vars

\* C23 witness: a socket that is a participant of a room has sent a bad token
C23_BadTokenInRoom ==
  /\ last.op = "auth" /\ ~last.ok
  /\ connections[last.ws] # None
  /\ InAgents(agentRooms[connections[last.ws]], connections[last.ws])

\* C24: a frame that is not JSON, has no string type, or has a type that is
\* none of the commands, is answered with error INVALID_MESSAGE to its sender.
C24_InvalidFrameAnswered ==
  (last.op = "frame" /\ last.arg # "ping")
    => out = <<[Ev(last.ws, "error", None, None) EXCEPT !.code = "INVALID_MESSAGE"]>>

\* C25: a move or a chat from a socket that is no participant of a room
\* (not authenticated, or authenticated and in no room) is answered with error
\* NOT_IN_ROOM to that socket.
C25_NotInRoomAnswered ==
  (last.op \in {"move", "chat"} /\ RoomOf(M, last.pid) = None)
    => out = <<[Ev(last.ws, "error", None, None) EXCEPT !.code = "NOT_IN_ROOM"]>>

\* C26: a join that names no room, by slug or by id, is answered with error
\* ROOM_NOT_FOUND and changes nothing else: participants and spectators stay
\* where they were and no room is loaded or unloaded.
C26_UnknownRoomRefused ==
  [][(last'.op \in {"join", "sjoin"} /\ ~last'.ok)
       => /\ out' = <<[Ev(last'.ws, "error", None, None) EXCEPT !.code = "ROOM_NOT_FOUND"]>>
          /\ rooms' = rooms /\ agentRooms' = agentRooms /\ spectators' = spectators
          /\ connections' = connections /\ wsOpen' = wsOpen]_vars

\* C27: when an authenticated socket whose participant is in no room joins a
\* room, it gets a room_state that lists the joiner and every participant of
\* the room, every other socket attached to the room gets exactly one
\* agent_joined for the joiner, and the joiner's socket gets none.
C27_JoinAnnounced ==
  (last.op = "join" /\ last.ok /\ last.from = None /\ last.left = None
   /\ last.ws \in wsOpen) =>
    /\ \E i \in 1..Len(out) :
         /\ out[i].to = last.ws /\ out[i].type = "room_state" /\ out[i].room = last.rid
         /\ last.pid \in out[i].agents
         /\ \A p \in Pids : InAgents(last.rid, p) => p \in out[i].agents
    /\ \A s \in wsOpen :
         (Bystander(s) /\ AttachedTo(s, last.rid))
           => Cardinality(Frames(s, "agent_joined", last.pid)) = 1
    /\ Frames(last.ws, "agent_joined", last.pid) = {}

\* C28: when the socket of a participant of room r closes, the participant is
\* taken out of r and every open socket still attached to r, participant or
\* spectator, gets exactly one agent_left for it; when a socket without a
\* participant closes, nothing is broadcast.
C28_CloseAnnounced ==
  /\ (last.op = "close" /\ last.from # None /\ last.from = last.left) =>
       /\ ~InAgents(last.left, last.pid)
       /\ \A s \in wsOpen :
            (Bystander(s) /\ AttachedTo(s, last.left))
              => Cardinality(Frames(s, "agent_left", last.pid)) = 1
  /\ (last.op = "close" /\ last.pid = None) => out = <<>>

\* C29: when a socket has closed and its close handler has run, no agents map
\* of a loaded room has an entry with that socket, no spectator set holds it,
\* and no participant that was attached through it is still mapped to a room.
C29_ClosedSocketGone ==
  [][last'.op = "close"
       => \A r \in DBRooms :
            /\ rooms'[r].id # None =>
                 /\ \A p \in Pids : rooms'[r].agents[p].ws # last'.ws
                 /\ last'.ws \notin rooms'[r].spectators
            /\ \A p \in Pids :
                 (rooms[r].id # None /\ rooms[r].agents[p].ws = last'.ws)
                   => agentRooms'[p] = None]_vars

LastAgent == rooms[last.rid].agents[last.pid]

\* C36: once a participant has left a room, by leave, switch or close, its
\* walk there is over: an agent_moved for participant p in room r is only
\* written while the registry maps p to r, and it tells the position of the
\* agent the registered instance of r holds for p, if it holds one; and the
\* position of a participant in a room changes only by a step of the walk of
\* its own agent there.
C36_AbandonedWalkStops ==
  [][/\ \A i \in 1..Len(out') :
          out'[i].type = "agent_moved" =>
            /\ agentRooms[out'[i].pid] = out'[i].room
            /\ rooms'[out'[i].room].agents[out'[i].pid].ws # 0
                 => /\ rooms'[out'[i].room].agents[out'[i].pid].x = out'[i].x
                    /\ rooms'[out'[i].room].agents[out'[i].pid].y = out'[i].y
     /\ \A r \in DBRooms, p \in Pids :
          (/\ InAgents(r, p) /\ rooms'[r].id # None /\ rooms'[r].agents[p].ws # 0
           /\ ~(last'.pid = p /\ last'.op = "join")
           /\ Pt(rooms'[r].agents[p].x, rooms'[r].agents[p].y)
                # Pt(rooms[r].agents[p].x, rooms[r].agents[p].y))
            => /\ rooms[r].agents[p].walkInterval /\ rooms[r].agents[p].walkPath # <<>>
               /\ Pt(rooms'[r].agents[p].x, rooms'[r].agents[p].y)
                    = Head(rooms[r].agents[p].walkPath)]_vars

\* C37: with no command in progress, agentRooms maps participant p to room r
\* if and only if r is loaded and the agents map of its instance holds p.
C37_MapsConsistent ==
  InFlight = 0 =>
    \A p \in Pids, r \in DBRooms : agentRooms[p] = r <=> InAgents(r, p)

\* C38: when the load of a join of room r completes after another join has
\* loaded r meanwhile, the sockets the registered instance of r held, as
\* participants or as spectators, are still in the registered instance of r
\* afterwards, next to the joiner: one instance holds both attachments.
C38_OverlappingLoadsMerge ==
  [][\A k \in TaskIds :
       (/\ tasks[k].pc = "load" /\ tasks'[k] = Idle
        /\ last'.ok /\ last'.rid = tasks[k].rid /\ last'.ws = tasks[k].ws)
         => /\ \A s \in rooms[tasks[k].rid].spectators \ {tasks[k].ws} :
                 s \in rooms'[tasks[k].rid].spectators
            /\ \A p \in Pids \ {tasks[k].pid} :
                 (rooms[tasks[k].rid].agents[p].ws \notin {0, tasks[k].ws})
                   => rooms'[tasks[k].rid].agents[p].ws = rooms[tasks[k].rid].agents[p].ws]_vars

\* C39: when a socket closes whose participant is attached to a room through
\* another socket, one that is open, the close leaves that attachment as it
\* is and writes no agent_left for the participant.
C39_CloseSparesNewerSocket ==
  [][(/\ last'.op = "close" /\ last'.pid # None
      /\ RoomOf(M, last'.pid) # None
      /\ rooms[RoomOf(M, last'.pid)].agents[last'.pid].ws # last'.ws
      /\ rooms[RoomOf(M, last'.pid)].agents[last'.pid].ws \in wsOpen')
       => /\ agentRooms'[last'.pid] = agentRooms[last'.pid]
          /\ rooms'[RoomOf(M, last'.pid)].agents[last'.pid]
               = rooms[RoomOf(M, last'.pid)].agents[last'.pid]
          /\ \A i \in 1..Len(out') :
               ~(out'[i].type = "agent_left" /\ out'[i].pid = last'.pid)]_vars

\* the events broadcastToRoom is called with
BroadcastTypes == {"agent_joined", "agent_left", "agent_moved", "chat_message"}

\* C40: a broadcast event of room r is written at most once to a socket, and
\* only to open sockets attached to r, whatever the socket did before, a
\* spectator join followed by auth and a participant join included.
C40_BroadcastOnceToAttached ==
  \A i \in 1..Len(out) :
    out[i].type \in BroadcastTypes =>
      /\ out[i].to \in wsOpen /\ AttachedTo(out[i].to, out[i].room)
      /\ \A j \in 1..Len(out) : j # i => out[j] # out[i]

\* the loaded rooms whose spectator set holds socket s
Watched(s) == {r \in DBRooms : Loaded(M, r) /\ s \in rooms[r].spectators}

\* C31: a socket is in the spectator set of at most one loaded room, and a
\* spectator join that has returned leaves its socket in the spectator set of
\* the room joined and of no other, whatever the order and overlap of the
\* socket's joins.
C31_OneRoomWatched ==
  /\ \A s \in Sockets : Cardinality(Watched(s)) <= 1
  /\ (last.op = "sjoin" /\ last.ok) => Watched(last.ws) = {last.rid}

\* C31 witness: a spectator of one room has joined another, and the room it
\* watched before is still loaded
C31_SpectatorSwitched ==
  /\ last.op = "sjoin" /\ last.ok
  /\ last.left # None /\ last.left # last.rid
  /\ Loaded(M, last.left) /\ Loaded(M, last.rid)

\* the entries of the list the query returned that are about room r
EntriesOf(r) == {i \in 1..Len(ar.active) : ar.active[i].id = r}

\* participants and spectators of room r in the registry the query found
SeenAgents(r) == IF ar.seen[r].id = None THEN {} ELSE Agents(ar.seen[r])
SeenSpectators(r) == IF ar.seen[r].id = None THEN {} ELSE ar.seen[r].spectators

\* C32: the list the active-rooms query returns has one entry for the lobby,
\* loaded or not, one for every other room that was loaded with a participant
\* in it when the query was made, each with that room's counts (0 and 0 for a
\* lobby that was not loaded), and no entry for any other room: none for a
\* room all participants have left.
C32_ActiveRoomsListed ==
  ar.pc = "done" =>
    /\ \A i \in 1..Len(ar.active) : ar.active[i].id \in DBRooms
    /\ \A r \in DBRooms :
         /\ Cardinality(EntriesOf(r)) =
              (IF r = SlugToId("lobby") \/ SeenAgents(r) # {} THEN 1 ELSE 0)
         /\ \A i \in EntriesOf(r) :
              /\ ar.active[i].agentCount = Cardinality(SeenAgents(r))
              /\ ar.active[i].spectatorCount = Cardinality(SeenSpectators(r))

\* C32 witness: the query was made while the lobby was not loaded and room A,
\* loaded and watched, had lost its participants, and has returned after a
\* participant joined the lobby
C32_QueryOverlapsJoin ==
  /\ ar.pc = "done"
  /\ \E r \in DBRooms \ {SlugToId("lobby")} :
       ar.seen[r].id # None /\ SeenAgents(r) = {} /\ SeenSpectators(r) # {}
  /\ ar.seen[SlugToId("lobby")].id = None
  /\ \E p \in Pids : InAgents(SlugToId("lobby"), p)

\* the tiles on the border of a rooms row
Border(g) == {c \in Cells(g) : c.x = 0 \/ c.y = 0 \/ c.x = g.w - 1 \/ c.y = g.h - 1}

\* C33: in every instance a load has built, every border tile (x = 0, y = 0,
\* x = width - 1, y = height - 1) of room.tiles is walkable, whatever the
\* tiles column holds, and no step changes the rooms table.
C33_BordersWalkable ==
  [][/\ \A r \in DBRooms :
          rooms'[r].id # None => \A c \in Border(dbTiles'[r]) : TileAt(dbTiles'[r], c.x, c.y) = 0
     /\ dbTiles' = dbTiles]_vars

\* the number of armed walk timers of participant p: those of its agent
\* objects in registered rooms and those of agent objects left behind
ActiveTimers(p) ==
  Cardinality({z \in timers : z.pid = p})
    + Cardinality({r \in DBRooms : InAgents(r, p) /\ rooms[r].agents[p].walkInterval})

\* the last step handled a move of a participant that was walking, with
\* tiles still to go
MidWalkMove ==
  /\ last'.op = "move" /\ last'.pid # None
  /\ RoomOf(M, last'.pid) # None
  /\ rooms[RoomOf(M, last'.pid)].agents[last'.pid].isWalking
  /\ rooms[RoomOf(M, last'.pid)].agents[last'.pid].walkPath # <<>>

\* C34: a move from a participant that is walking is refused with one
\* INVALID_MOVE error to the mover alone and leaves the walk as it was, with
\* its path, its timer and its destination; and a participant never has more
\* than one armed walk timer.
C34_OneWalkAtATime ==
  [][/\ MidWalkMove
          => /\ out' = <<[Ev(last'.ws, "error", None, None) EXCEPT !.code = "INVALID_MOVE"]>>
             /\ rooms' = rooms /\ agentRooms' = agentRooms /\ timers' = timers
     /\ \A p \in Pids : ActiveTimers(p)' <= 1]_vars

\* the agent of participant p in the registered instance of r is walking, or
\* is at rest: not walking, no tiles to go, no timer
Walking(r, p) == InAgents(r, p) /\ rooms[r].agents[p].isWalking
AtRest(r, p) ==
  /\ InAgents(r, p) /\ ~rooms[r].agents[p].isWalking
  /\ rooms[r].agents[p].walkPath = <<>> /\ ~rooms[r].agents[p].walkInterval

\* C35: with the walk timers firing, a participant that is walking in room r
\* comes to rest (isWalking false, no tiles to go, no timer) unless it is
\* taken out of r before that; and a move of a participant at rest is never
\* refused for walking.
C35_WalkEnds ==
  /\ \A r \in DBRooms, p \in Pids : Walking(r, p) ~> (AtRest(r, p) \/ ~InAgents(r, p))
  /\ [](\A r \in DBRooms, p \in Pids :
         (AtRest(r, p) /\ agentRooms[p] = r) =>
           \A x \in Cols(dbTiles[r]), y \in Rows(dbTiles[r]) :
             moveAgentResult(M, dbTiles[r], p, x, y) # "Already walking")

\* C35 witness: a participant that has walked off its spawn point and come to
\* rest has sent another move, which was accepted and started a walk
C35_MovedAgain ==
  /\ last.op = "move" /\ last.ok /\ Walking(last.rid, last.pid)
  /\ LastAgent.walkPath # <<>> /\ LastAgent.walkInterval
  /\ Pt(LastAgent.x, LastAgent.y) # findSpawnPoint(dbTiles[last.rid])

\* C11: a valid move to a reachable tile other than the current one puts the
\* participant on the destination in the step that handles the command and
\* sends one agent_path event to every socket of the room, the mover included.
C11_MoveTeleports ==
  [][(/\ last'.op = "move" /\ last'.ok
      /\ Pt(rooms[last'.rid].agents[last'.pid].x, rooms[last'.rid].agents[last'.pid].y)
           # Pt(last'.x, last'.y))
       => /\ rooms'[last'.rid].agents[last'.pid].x = last'.x
          /\ rooms'[last'.rid].agents[last'.pid].y = last'.y
          /\ Cardinality({i \in 1..Len(out') :
                 out'[i].to = last'.ws /\ out'[i].type = "agent_path"}) = 1]_vars

\* C12: after an accepted move the walk goes tile by tile.  In every step,
\* for a participant the registry holds before and after with tiles still to
\* walk, and whom no join, leave or close of its own has just re-attached:
\* either nothing of the walk changes and its timer stays armed, or the head
\* of the path is taken, the position becomes that tile, and agent_moved for
\* it goes to every open socket attached to the room.  An accepted move
\* leaves a path whose last tile is the target.
WalkKept(a, b) ==
  b.walkPath = a.walkPath /\ b.walkInterval /\ b.isWalking /\ b.x = a.x /\ b.y = a.y

WalkStepped(r, p, a, b) ==
  /\ b.walkPath = Tail(a.walkPath)
  /\ b.x = Head(a.walkPath).x /\ b.y = Head(a.walkPath).y
  /\ \A s \in wsOpen' :
       (IF connections'[s] # None /\ agentRooms'[connections'[s]] # None
          THEN agentRooms'[connections'[s]] = r ELSE spectators'[s] = r)
         => Cardinality({i \in 1..Len(out') :
               /\ out'[i].to = s /\ out'[i].type = "agent_moved" /\ out'[i].pid = p
               /\ out'[i].x = b.x /\ out'[i].y = b.y}) >= 1

C12_WalkStepByStep ==
  [][/\ \A r \in DBRooms, p \in Pids :
          (/\ InAgents(r, p) /\ rooms[r].agents[p].walkPath # <<>>
           /\ rooms'[r].id # None /\ rooms'[r].agents[p].ws # 0
           /\ ~(last'.pid = p /\ last'.op \in {"join", "leave", "close"}))
            => \/ WalkKept(rooms[r].agents[p], rooms'[r].agents[p])
               \/ WalkStepped(r, p, rooms[r].agents[p], rooms'[r].agents[p])
     /\ (last'.op = "move" /\ last'.ok
           /\ rooms'[last'.rid].agents[last'.pid].walkPath # <<>>)
          => /\ rooms'[last'.rid].agents[last'.pid].walkInterval
             /\ rooms'[last'.rid].agents[last'.pid].walkPath[
                   Len(rooms'[last'.rid].agents[last'.pid].walkPath)]
                  = Pt(last'.x, last'.y)]_vars

\* C13: a move refused because the target is out of bounds, blocked or
\* unreachable is answered with one INVALID_MOVE error to the mover alone, and
\* leaves every room, with its positions and walking states, as it was.
RefusedTarget == {"out of bounds", "not walkable", "No walkable path"}

C13_RefusedMove ==
  [][(last'.op = "move" /\ last'.why \in RefusedTarget)
       => /\ rooms' = rooms /\ agentRooms' = agentRooms
          /\ out' = <<[Ev(last'.ws, "error", None, None) EXCEPT !.code = "INVALID_MOVE"]>>]_vars

\* C13 witness: a move has just been refused for want of a path
C13_Unreachable ==
  last.op = "move" /\ last.why = "No walkable path" /\ ~LastAgent.isWalking

\* C14: findPath returns the empty sequence exactly when start and target
\* are the same tile or no sequence of admissible steps leads from the start
\* to the target.
C14_EmptyIffNoRoute ==
  fp.done =>
    (fp.path = <<>> <=> (FpStart = FpEnd \/ FpEnd \notin ReachFrom(fp.g, {FpStart})))

\* C14 witness: findPath has returned empty for two different walkable tiles
\* that no route joins.
C14_NoRoute ==
  fp.done /\ fp.path = <<>> /\ FpStart # FpEnd

\* C15: a non-empty result of findPath leaves out the start tile, ends at
\* the target and is a sequence of admissible steps from the start over
\* in-bounds walkable tiles.
C15_PathWellFormed ==
  (fp.done /\ fp.path # <<>>) =>
    /\ \A i \in 1..Len(fp.path) : fp.path[i] # FpStart /\ fp.path[i] \in Cells(fp.g)
    /\ fp.path[Len(fp.path)] = FpEnd
    /\ \A i \in 1..Len(fp.path) :
         IsStep(fp.g, IF i = 1 THEN FpStart ELSE fp.path[i - 1], fp.path[i])

\* C15 witness: a returned path with a diagonal step next to a blocked tile
C15_DiagonalPath ==
  /\ fp.done /\ Len(fp.path) >= 2
  /\ \E i \in 2..Len(fp.path) : StepCost(fp.path[i - 1], fp.path[i]) = 14
  /\ \E c \in Cells(fp.g) : TileAt(fp.g, c.x, c.y) = 1

\* C16: a non-empty result of findPath has the least total cost (10 a
\* cardinal step, 14 a diagonal one, in tenths) among the sequences of
\* admissible steps from the start to the target.
C16_PathIsCheapest ==
  (fp.done /\ fp.path # <<>>) =>
    ~CheaperWalk(fp.g, FpStart, FpEnd, PathCost(FpStart, fp.path))

\* C10: in a room with at least one walkable tile, every participant in the
\* agents map stands on a tile that is in bounds and walkable, after any joins,
\* accepted and refused moves and walk-timer steps.
HasWalkable(g) == \E x \in Cols(g), y \in Rows(g) : TileAt(g, x, y) = 0

C10_PositionsWalkable ==
  \A r \in DBRooms, p \in Pids :
    (InAgents(r, p) /\ HasWalkable(dbTiles[r])) =>
      /\ 0 <= rooms[r].agents[p].x /\ rooms[r].agents[p].x < dbTiles[r].w
      /\ 0 <= rooms[r].agents[p].y /\ rooms[r].agents[p].y < dbTiles[r].h
      /\ TileAt(dbTiles[r], rooms[r].agents[p].x, rooms[r].agents[p].y) = 0

\* C10 witness: a participant that spawned off (1,1), had a move accepted and
\* has been carried by the walk timer to the end of its path on another tile.
C10_WalkedAway ==
  \E r \in DBRooms, p \in Pids :
    /\ InAgents(r, p)
    /\ TileAt(dbTiles[r], 1, 1) # 0
    /\ rooms[r].agents[p].isWalking /\ rooms[r].agents[p].walkPath = <<>>
    /\ Pt(rooms[r].agents[p].x, rooms[r].agents[p].y) # findSpawnPoint(dbTiles[r])

====
